---- MODULE Spec2Model ----
(***************************************************************************)
(* TurnJSBook (src/script.js): the sequential image preload pipeline, the  *)
(* hand-over to the Turn.js flip widget, the navigation bindings and the   *)
(* button / shadow synchronisation.                                        *)
(*                                                                         *)
(* The browser is single threaded.  Every action below is one task of the  *)
(* event loop (a DOM event, a timer, the document-ready callback) or one   *)
(* microtask (the continuation of an await).  A pending microtask runs     *)
(* before any other task, which is what the TaskIdle guard expresses.      *)
(***************************************************************************)
EXTENDS Integers, Sequences, FiniteSets, TLC

\* this.totalPages (constructor)
totalPages == 21

\* Navigation inputs (clicks, key presses) the user makes in one run.
MaxNav == 3

\* Image signals delivered after the image's promise has already settled.
MaxLate == 2

\* 0-based page indices of createPages' loop
Pages == 0..(totalPages - 1)

ShadowClasses == {"left-shadow", "right-shadow"}

Handlers == {"prev-click", "next-click", "keydown"}

Keys == {"ArrowLeft", "ArrowRight", "Other"}

\* States of one loadImage promise: not created, pending, fulfilled, or
\* rejected with one of the two errors loadImage builds.
Rejected == {"LoadFailure", "LoadTimeout"}

PromiseStates == {"none", "pending", "resolved"} \cup Rejected

NoError == [kind |-> "none", idx |-> -1]

NoSignal == [idx |-> -1, sig |-> "none"]

VARIABLES
    jQueryLoaded,   \* environment: typeof $ !== 'undefined'
    turnLoaded,     \* environment: typeof $.fn.turn !== 'undefined'
    pc,             \* where the startup sequence stands
    i,              \* createPages' loop variable
    isLoaded,       \* this.isLoaded, the ready flag
    flipbook,       \* children of #flipbook: the page indices, in DOM order
    promise,        \* promise[j]: state of the promise of loadImage for page j
    timer,          \* timer[j]: the 30 000 ms timer of that call
    lastSignal,     \* the signal that settled a promise most recently (history)
    lastLate,       \* kind of the most recent late signal (history)
    lateSignals,    \* number of signals handled after their promise settled
    loadingHidden,  \* #loading carries class 'hidden'
    loadingText,    \* error written into '#loading p', NoError while untouched
    prevDisabled,   \* #prev-btn disabled property
    nextDisabled,   \* #next-btn disabled property
    shadow,         \* shadow[p]: shadow classes of the p-th .page element
    bound,          \* handlers registered by bindEvents
    wInit,          \* flipbook.turn({...}) has been called
    wCallbacks,     \* lifecycle callbacks handed to the widget
    wPage,          \* widget: current page (1-based)
    wView,          \* widget: visible pages
    wState,         \* widget: "Idle" or "Transitioning"
    wTarget,        \* widget: page the running transition leads to
    navInputs,      \* number of navigation inputs made so far (history)
    cmdsSent,       \* number of turn('previous'|'next') calls made (history)
    edgeForwarded   \* a command was sent that had no page to turn to (history)

envVars == <<jQueryLoaded, turnLoaded>>
loadVars == <<promise, timer>>
sigVars == <<lastSignal, lastLate, lateSignals>>
uiVars == <<loadingHidden, loadingText, prevDisabled, nextDisabled, shadow>>
widgetVars == <<wInit, wCallbacks, wPage, wView, wState, wTarget>>
ctrlVars == <<pc, i, isLoaded, flipbook, bound>>
navVars == <<navInputs, cmdsSent, edgeForwarded>>

vars == <<jQueryLoaded, turnLoaded, pc, i, isLoaded, flipbook, promise, timer,
          lastSignal, lastLate, lateSignals, loadingHidden, loadingText, prevDisabled,
          nextDisabled, shadow, bound, wInit, wCallbacks, wPage, wView, wState,
          wTarget, navInputs, cmdsSent, edgeForwarded>>

----------------------------------------------------------------------------
(* Pure helpers *)

\* resolve()/reject() of a Promise act only while it is pending.
SettleLastWins(p, outcome) == outcome

Settle(p, outcome) == IF p = "pending" THEN outcome ELSE p

\* clearTimeout(timeout): cancels a timer that has not fired yet.
ClearTimeoutNoop(t) == t

ClearTimeout(t) == IF t = "pending" THEN "cleared" ELSE t

\* `await this.loadImage(...)`: the continuation createPages takes for a
\* promise in state p.
AwaitPcNoWait(p) == "resume"

AwaitPcSwallow(p) == IF p = "pending" THEN "await" ELSE "resume"

AwaitPc(p) ==
    CASE p = "pending" -> "await"
      [] p = "resolved" -> "resume"
      [] OTHER -> "reject"

\* this.flipbook.append(page)
PrependPage(fb, idx) == <<idx>> \o fb

AppendPage(fb, idx) == Append(fb, idx)

\* The Error object a rejected loadImage promise carries: its message names
\* the cause and img.src, i.e. the page index.
ErrorOf(p, idx) == [kind |-> p, idx |-> idx]

\* prevBtn.prop('disabled', page <= 1)
PrevDisabledStrict(page) == page < 1

PrevDisabledFor(page) == page <= 1

\* nextBtn.prop('disabled', page >= this.totalPages)
NextDisabledStrict(page) == page > totalPages

NextDisabledFor(page) == page >= totalPages

\* jQuery .eq(idx) on a set of n elements: the positions it selects.
Eq(n, idx) ==
    IF idx >= 0
    THEN (IF idx < n THEN {idx} ELSE {})
    ELSE (IF n + idx >= 0 THEN {n + idx} ELSE {})

AddClass(sh, S, c) == [p \in Pages |-> IF p \in S THEN sh[p] \cup {c} ELSE sh[p]]

\* .removeClass('left-shadow right-shadow') on every .page element
ClearShadowsNone(sh) == sh

ClearShadows(sh) == [p \in Pages |-> sh[p] \ ShadowClasses]

\* view[k] - 1: a 1-based page number of the widget as 0-based DOM index
ZeroBasedForgot(v) == v

ZeroBased(v) == v - 1

\* The class the single-page branch gives the visible page.
SinglePageClassAlwaysRight(page) == "right-shadow"

SinglePageClass(page) == IF page = 1 THEN "right-shadow" ELSE "left-shadow"

\* updatePageShadows(page) with view = flipbook.turn('view') and n .page
\* elements in the container; sh is the assignment before the call.
updatePageShadows(sh, page, view, n) ==
    LET cleared == ClearShadows(sh)
    IN  IF Len(view) > 0
        THEN IF Len(view) >= 2
             THEN LET leftPageIndex == ZeroBased(view[1])
                      rightPageIndex == ZeroBased(view[2])
                      s1 == IF page > 1 /\ leftPageIndex >= 0
                            THEN AddClass(cleared, Eq(n, leftPageIndex), "left-shadow")
                            ELSE cleared
                  IN  IF rightPageIndex >= 0
                      THEN AddClass(s1, Eq(n, rightPageIndex), "right-shadow")
                      ELSE s1
             ELSE LET pageIndex == ZeroBased(view[1])
                  IN  AddClass(cleared, Eq(n, pageIndex), SinglePageClass(page))
        ELSE cleared

\* The views the widget may report for current page p: a single page, or
\* the two-page spread holding p (0 marks an empty slot of the spread).
DoubleView(p) ==
    IF p % 2 = 0
    THEN <<p, IF p + 1 <= totalPages THEN p + 1 ELSE 0>>
    ELSE <<p - 1, p>>

Views(p) == {<<p>>, DoubleView(p)}

\* Page a 'previous' / 'next' command leads to; 0 when there is none.
TurnTargetUnclamped(cmd, p) == IF cmd = "previous" THEN p - 1 ELSE p + 1

TurnTarget(cmd, p) ==
    IF cmd = "previous"
    THEN (IF p > 1 THEN p - 1 ELSE 0)
    ELSE (IF p < totalPages THEN p + 1 ELSE 0)

\* No microtask is pending: the event loop may pick the next task.
TaskIdle == pc \in {"start", "await", "done", "failed", "crashed"}

----------------------------------------------------------------------------
(* Initial state: the document before its ready event.  The host page's   *)
(* initial markup (loading indicator class, button disabled attributes)    *)
(* and the presence of the two libraries are not fixed by script.js.       *)

Init ==
    /\ jQueryLoaded \in BOOLEAN
    /\ turnLoaded \in BOOLEAN
    /\ pc = "start"
    /\ i = 0
    /\ isLoaded = FALSE
    /\ flipbook = <<>>
    /\ promise = [j \in Pages |-> "none"]
    /\ timer = [j \in Pages |-> "none"]
    /\ lastSignal = NoSignal
    /\ lastLate = "none"
    /\ lateSignals = 0
    /\ loadingHidden \in BOOLEAN
    /\ loadingText = NoError
    /\ prevDisabled \in BOOLEAN
    /\ nextDisabled \in BOOLEAN
    /\ shadow = [p \in Pages |-> {}]
    /\ bound = {}
    /\ wInit = FALSE
    /\ wCallbacks = {}
    /\ wPage = 0
    /\ wView = <<>>
    /\ wState = "Idle"
    /\ wTarget = 0
    /\ navInputs = 0
    /\ cmdsSent = 0
    /\ edgeForwarded = FALSE

----------------------------------------------------------------------------
(* Preload pipeline *)

\* loadImage(img) for page j, up to the await in createPages: the executor
\* arms the timer, installs onload/onerror and resolves at once when
\* img.complete is already true.
loadImage(j) ==
    \E complete \in BOOLEAN :
        LET p == IF complete THEN Settle("pending", "resolved") ELSE "pending"
        IN  /\ promise' = [promise EXCEPT ![j] = p]
            /\ timer' = [timer EXCEPT ![j] =
                            IF complete THEN ClearTimeout("pending") ELSE "pending"]
            /\ lastSignal' = IF complete
                             THEN [idx |-> j, sig |-> "complete"]
                             ELSE lastSignal
            /\ pc' = AwaitPc(p)

\* $(document).ready callback: new TurnJSBook() -> constructor -> init() up
\* to its first await.  Without jQuery the script's top-level $(document)
\* throws a ReferenceError and nothing of the class ever runs.
DocumentReady ==
    /\ pc = "start"
    /\ IF ~jQueryLoaded
       THEN /\ pc' = "crashed"
            /\ UNCHANGED <<i, isLoaded, loadVars, sigVars, loadingHidden>>
       ELSE /\ isLoaded' = FALSE
            /\ loadingHidden' = FALSE
            /\ i' = 0
            /\ IF 0 < totalPages
               THEN loadImage(0) /\ UNCHANGED <<lastLate, lateSignals>>
               ELSE pc' = "created" /\ UNCHANGED <<loadVars, sigVars>>
    /\ UNCHANGED <<envVars, flipbook, bound, loadingText, prevDisabled,
                   nextDisabled, shadow, widgetVars, navVars>>

\* A signal sig for the image of page j reaches the handler loadImage
\* installed; outcome is what the handler settles the promise with and
\* newTimer what it leaves of the timer.
ImageSignal(j, sig, outcome, newTimer) ==
    LET late == promise[j] # "pending"
        p == Settle(promise[j], outcome)
    IN  /\ TaskIdle
        /\ promise[j] # "none"
        /\ late => lateSignals < MaxLate
        /\ promise' = [promise EXCEPT ![j] = p]
        /\ timer' = [timer EXCEPT ![j] = newTimer]
        /\ lastSignal' = IF late THEN lastSignal ELSE [idx |-> j, sig |-> sig]
        /\ lastLate' = IF late THEN sig ELSE lastLate
        /\ lateSignals' = IF late THEN lateSignals + 1 ELSE lateSignals
        /\ pc' = IF ~late /\ pc = "await" /\ j = i THEN AwaitPc(p) ELSE pc
        /\ UNCHANGED <<envVars, i, isLoaded, flipbook, bound, uiVars,
                       widgetVars, navVars>>

\* img.onload
OnLoad == \E j \in Pages : ImageSignal(j, "load", "resolved", ClearTimeout(timer[j]))

\* img.onerror
OnError == \E j \in Pages : ImageSignal(j, "error", "LoadFailure", ClearTimeout(timer[j]))

\* the setTimeout callback, 30 000 ms after the request
OnTimeout ==
    \E j \in Pages :
        /\ timer[j] = "pending"
        /\ ImageSignal(j, "timeout", "LoadTimeout", "fired")

\* createPages after a fulfilled await: attach page i, then the next loop
\* iteration up to its await, or the end of the loop.
ResumeCreatePages ==
    /\ pc = "resume"
    /\ flipbook' = AppendPage(flipbook, i)
    /\ i' = i + 1
    /\ IF i + 1 < totalPages
       THEN loadImage(i + 1) /\ UNCHANGED <<lastLate, lateSignals>>
       ELSE pc' = "created" /\ UNCHANGED <<loadVars, sigVars>>
    /\ UNCHANGED <<envVars, isLoaded, bound, uiVars, widgetVars, navVars>>

\* showError(error)
showErrorHides(error) ==
    /\ loadingText' = error
    /\ loadingHidden' = TRUE

showError(error) ==
    /\ loadingText' = error
    /\ UNCHANGED loadingHidden

\* createPages after a rejected await: the error leaves createPages, init's
\* catch receives it and calls showError.
RejectCreatePages ==
    /\ pc = "reject"
    /\ showError(ErrorOf(promise[i], i))
    /\ pc' = "failed"
    /\ UNCHANGED <<envVars, i, isLoaded, flipbook, bound, loadVars, sigVars,
                   prevDisabled, nextDisabled, shadow, widgetVars, navVars>>

----------------------------------------------------------------------------
(* Widget initialization and UI synchronisation *)

\* updateUI(page): curPage is flipbook.turn('page'), view flipbook.turn('view')
updateUI(page, curPage, view) ==
    LET pg == IF page = 0 THEN curPage ELSE page
    IN  /\ prevDisabled' = PrevDisabledFor(pg)
        /\ nextDisabled' = NextDisabledFor(pg)
        /\ shadow' = updatePageShadows(shadow, pg, view, Len(flipbook))

\* bindEvents()
bindEventsClicksOnly == bound' = bound \cup {"prev-click", "next-click"}

bindEvents == bound' = bound \cup Handlers

\* init() after `await this.createPages()`: initializeTurnJS, bindEvents,
\* hideLoading; a throw of initializeTurnJS goes to init's catch.
InitDependencyMissing ==
    /\ pc = "created"
    /\ ~jQueryLoaded \/ ~turnLoaded
    /\ showError(IF ~jQueryLoaded
                 THEN [kind |-> "jQuery is not loaded", idx |-> -1]
                 ELSE [kind |-> "Turn.js is not loaded", idx |-> -1])
    /\ pc' = "failed"
    /\ UNCHANGED <<envVars, i, isLoaded, flipbook, bound, loadVars, sigVars,
                   prevDisabled, nextDisabled, shadow, widgetVars, navVars>>

InitWidget ==
    /\ pc = "created"
    /\ jQueryLoaded /\ turnLoaded
    /\ wInit' = TRUE
    /\ wCallbacks' = {"turning", "turned"}
    /\ wPage' = 1
    /\ wView' \in Views(1)
    /\ wState' = "Idle"
    /\ wTarget' = 0
    /\ updateUI(1, wPage', wView')
    /\ isLoaded' = TRUE
    /\ bindEvents
    /\ loadingHidden' = TRUE
    /\ pc' = "done"
    /\ UNCHANGED <<envVars, i, flipbook, loadVars, sigVars, loadingText, navVars>>

----------------------------------------------------------------------------
(* Navigation *)

\* The UI state updateUI writes.
syncVars == <<prevDisabled, nextDisabled, shadow>>

\* when.turning(event, page, view): a console.log
turningUpdatesUI(page) == updateUI(page, wPage, wView)

turning(page) == UNCHANGED syncVars

\* when.turned(event, page, view): updateUI(page), which reads the view the
\* widget shows after the transition
turned(page) == updateUI(page, wPage', wView')

\* The widget leaves Idle for a transition to page t and fires the turning
\* callback if it was given one.
StartTransition(t) ==
    /\ wState' = "Transitioning"
    /\ wTarget' = t
    /\ UNCHANGED <<wInit, wCallbacks, wPage, wView>>
    /\ IF "turning" \in wCallbacks THEN turning(t) ELSE UNCHANGED syncVars

\* flipbook.turn(cmd): the widget starts a transition when it is idle and
\* the command has a page to turn to.
TurnCommand(cmd) ==
    LET t == TurnTarget(cmd, wPage)
    IN  /\ cmdsSent' = cmdsSent + 1
        /\ edgeForwarded' = (edgeForwarded \/ (wState = "Idle" /\ t = 0))
        /\ IF wInit /\ wState = "Idle" /\ t # 0
           THEN StartTransition(t)
           ELSE UNCHANGED <<widgetVars, syncVars>>

\* The handler bindEvents registered for h runs and passes its isLoaded test.
NavHandlerUnguarded(h) == TRUE

NavHandler(h) == h \in bound /\ isLoaded

\* A navigation input: dispatched tells whether the browser delivers the
\* event to handlers at all, cmd is the command the handler would send.
NavInput(h, dispatched, cmd) ==
    /\ TaskIdle
    /\ navInputs < MaxNav
    /\ navInputs' = navInputs + 1
    /\ IF dispatched /\ NavHandler(h) /\ cmd # "none"
       THEN TurnCommand(cmd)
       ELSE UNCHANGED <<widgetVars, syncVars, cmdsSent, edgeForwarded>>
    /\ UNCHANGED <<envVars, ctrlVars, loadVars, sigVars, loadingHidden,
                   loadingText>>

\* click on #prev-btn (a disabled button dispatches no click)
ClickPrev == NavInput("prev-click", ~prevDisabled, "previous")

\* click on #next-btn
ClickNext == NavInput("next-click", ~nextDisabled, "next")

\* keydown on the document
KeyDown ==
    \E key \in Keys :
        NavInput("keydown", TRUE,
                 CASE key = "ArrowLeft" -> "previous"
                   [] key = "ArrowRight" -> "next"
                   [] OTHER -> "none")

\* The widget starts a transition on its own (drag / corner gesture).
WidgetGesture ==
    /\ pc = "done"
    /\ wInit
    /\ wState = "Idle"
    /\ \E cmd \in {"previous", "next"} :
          /\ TurnTarget(cmd, wPage) # 0
          /\ StartTransition(TurnTarget(cmd, wPage))
    /\ UNCHANGED <<envVars, ctrlVars, loadVars, sigVars, loadingHidden,
                   loadingText, navVars>>

\* The widget completes a transition and fires when.turned(event, page, view)
WidgetTurned ==
    /\ TaskIdle
    /\ wState = "Transitioning"
    /\ wPage' = wTarget
    /\ wView' \in Views(wTarget)
    /\ wState' = "Idle"
    /\ wTarget' = 0
    /\ IF "turned" \in wCallbacks
       THEN turned(wPage')
       ELSE UNCHANGED syncVars
    /\ UNCHANGED <<wInit, wCallbacks, loadingHidden, loadingText>>
    /\ UNCHANGED <<envVars, ctrlVars, loadVars, sigVars, navVars>>

----------------------------------------------------------------------------

Next ==
    \/ DocumentReady
    \/ OnLoad
    \/ OnError
    \/ OnTimeout
    \/ ResumeCreatePages
    \/ RejectCreatePages
    \/ InitDependencyMissing
    \/ InitWidget
    \/ ClickPrev
    \/ ClickNext
    \/ KeyDown
    \/ WidgetGesture
    \/ WidgetTurned

Spec == Init /\ [][Next]_vars

\* The browser eventually runs every task and microtask that is ready; the
\* user and the widget's gestures are under no obligation.
FairSpec ==
    /\ Spec
    /\ WF_vars(DocumentReady)
    /\ WF_vars(OnLoad \/ OnError \/ OnTimeout)
    /\ WF_vars(ResumeCreatePages)
    /\ WF_vars(RejectCreatePages)
    /\ WF_vars(InitDependencyMissing)
    /\ WF_vars(InitWidget)
    /\ WF_vars(WidgetTurned)

----------------------------------------------------------------------------
(* Properties *)

Settled == {"resolved"} \cup Rejected

\* init's try block has run to its end or to its catch
Ended == {"done", "failed"}

\* C1: at every point of createPages the container holds exactly the pages
\* 0..k-1 in ascending order for some k <= totalPages (k is the loop index
\* while the loop runs), and after a successful initialization it holds all
\* totalPages pages in strictly ascending order.
C1_ContainerIsOrderedPrefix ==
    /\ Len(flipbook) <= totalPages
    /\ \A p \in 1..Len(flipbook) : flipbook[p] = p - 1
    /\ pc \in {"await", "resume", "reject"} => Len(flipbook) = i
    /\ pc = "done" => Len(flipbook) = totalPages

C1_Witness ==
    /\ pc = "done"
    /\ Len(flipbook) = totalPages
    /\ flipbook[totalPages] = totalPages - 1

\* C2: at most one image load is unsettled at any moment, and the load of
\* page j+1 is requested only after the load of page j has resolved and
\* page j has been appended to the container.
C2_LoadsAreSequential ==
    /\ Cardinality({j \in Pages : promise[j] = "pending"}) <= 1
    /\ \A j \in Pages :
          (j + 1 \in Pages /\ promise[j + 1] # "none") =>
              /\ promise[j] = "resolved"
              /\ Len(flipbook) > j
              /\ flipbook[j + 1] = j

C2_Witness ==
    /\ pc = "await"
    /\ promise[1] = "pending"
    /\ promise[0] = "resolved"

\* C3: every page present in the container has a loadImage promise that has
\* resolved; a page whose load is pending, timed out or errored is never in
\* the container.
C3_AttachedOnlyAfterLoad ==
    /\ \A p \in 1..Len(flipbook) : promise[flipbook[p]] = "resolved"
    /\ \A j \in Pages :
          promise[j] \in {"pending"} \cup Rejected =>
              \A p \in 1..Len(flipbook) : flipbook[p] # j

C3_Witness ==
    /\ Len(flipbook) = 2
    /\ promise[2] = "LoadTimeout"
    /\ pc = "failed"

\* The outcome the load contract gives each kind of signal.
OutcomeOf(sig) ==
    CASE sig \in {"complete", "load"} -> "resolved"
      [] sig = "error" -> "LoadFailure"
      [] sig = "timeout" -> "LoadTimeout"
      [] OTHER -> "none"

\* C4: a loadImage promise settles at most once; the step that settles it
\* is the first signal for that image and fixes the outcome (complete/load:
\* success, error: LoadFailure, timeout: LoadTimeout); a signal arriving
\* after that changes neither the outcome nor any controller, UI or widget
\* state.
C4_FirstSignalWins ==
    [][ /\ \A j \in Pages :
              /\ promise[j] \in Settled => promise'[j] = promise[j]
              /\ (promise[j] \notin Settled /\ promise'[j] \in Settled) =>
                    /\ lastSignal'.idx = j
                    /\ promise'[j] = OutcomeOf(lastSignal'.sig)
                    /\ (promise[j] = "none") <=> (lastSignal'.sig = "complete")
        /\ lateSignals' # lateSignals =>
              UNCHANGED <<promise, timer, lastSignal, ctrlVars, uiVars,
                          widgetVars, navVars>>
      ]_vars

C4_Witness ==
    /\ pc = "failed"
    /\ promise[0] = "LoadTimeout"
    /\ promise[1] = "none"
    /\ lateSignals > 0
    /\ lastLate = "load"

\* C5: once the load of page k has failed, no load is ever requested for an
\* index above k, no page with index >= k is ever in the container, the
\* pipeline is aborted, and the error init's catch receives is that load's
\* error.
C5_FirstFailureAborts ==
    \A k \in Pages :
        promise[k] \in Rejected =>
            /\ \A j \in Pages : j > k => promise[j] = "none"
            /\ \A p \in 1..Len(flipbook) : flipbook[p] < k
            /\ pc \in {"reject", "failed"}
            /\ pc = "failed" => loadingText = ErrorOf(promise[k], k)

C5_Witness ==
    /\ pc = "failed"
    /\ promise[2] = "LoadFailure"
    /\ loadingText = [kind |-> "LoadFailure", idx |-> 2]
    /\ Len(flipbook) = 2

\* C6: after an image load has timed out or errored, in every later state
\* the ready flag is false, the widget has not been initialized and no
\* click or keydown handler is bound.
C6_FailureLeavesControlsInert ==
    (\E k \in Pages : promise[k] \in Rejected) =>
        /\ ~isLoaded
        /\ ~wInit
        /\ bound = {}
        /\ pc \in {"reject", "failed"}

C6_Witness ==
    /\ pc = "failed"
    /\ promise[3] = "LoadTimeout"
    /\ navInputs > 0
    /\ lateSignals > 0

FullyUsable ==
    /\ Len(flipbook) = totalPages
    /\ wInit
    /\ isLoaded
    /\ bound = Handlers

\* C7 as stated: when startup has ended the book is fully usable or the
\* container holds no page element at all.
C7_NoPartialSuccess_Original ==
    pc \in Ended => (FullyUsable \/ Len(flipbook) = 0)

\* C7 as amended: when startup has ended either the book is fully usable
\* (all pages attached, widget initialized, ready flag set, navigation
\* bound, loading indicator hidden) or it is unusable (ready flag false,
\* widget not initialized, nothing bound, the error shown in the still
\* visible loading indicator); the pages attached before the failure stay
\* in the container: 0..k-1 after a load failure at index k, all of them
\* after a widget initialization failure.
C7_NoPartiallyUsableBook ==
    pc \in Ended =>
        \/ /\ pc = "done"
           /\ FullyUsable
           /\ loadingHidden
           /\ loadingText = NoError
        \/ /\ pc = "failed"
           /\ ~isLoaded /\ ~wInit /\ bound = {}
           /\ ~loadingHidden
           /\ loadingText # NoError
           /\ Len(flipbook) = i
           /\ \A p \in 1..Len(flipbook) : flipbook[p] = p - 1
           /\ i < totalPages => promise[i] \in Rejected
           /\ i = totalPages => ~turnLoaded

C7_Witness ==
    /\ pc = "failed"
    /\ promise[2] \in Rejected
    /\ Len(flipbook) = 2

\* C8 as stated: with jQuery or Turn.js absent, startup ends with the
\* DependencyMissing error naming the absent dependency shown by init's
\* failure handler, the widget not initialized and the ready flag false.
C8_DependencyMissingSurfaced ==
    (pc \in Ended \cup {"crashed"} /\ (~jQueryLoaded \/ ~turnLoaded)) =>
        /\ loadingText.kind = IF ~jQueryLoaded
                              THEN "jQuery is not loaded"
                              ELSE "Turn.js is not loaded"
        /\ ~wInit
        /\ ~isLoaded

\* C9: the ready flag becomes true only in a step after which all images
\* have loaded, all pages are attached, the widget is initialized with both
\* lifecycle callbacks and the UI shows page 1 (prev disabled, next enabled
\* when there is more than one page); once true it stays true.
C9_ReadyOnlyAfterInit ==
    [][ /\ (~isLoaded /\ isLoaded') =>
              /\ \A j \in Pages : promise'[j] = "resolved"
              /\ Len(flipbook') = totalPages
              /\ wInit'
              /\ wCallbacks' = {"turning", "turned"}
              /\ wPage' = 1
              /\ prevDisabled'
              /\ totalPages > 1 => ~nextDisabled'
        /\ isLoaded => isLoaded'
      ]_vars

C9_Witness ==
    /\ isLoaded
    /\ wPage = 1
    /\ wState = "Idle"
    /\ prevDisabled
    /\ ~nextDisabled
    /\ cmdsSent = 0

\* C10: a navigation input made while the ready flag is false sends no
\* command to the widget and changes no controller, UI or widget state;
\* nothing is queued: every command the widget receives is sent by the
\* input of that very step, made while ready.
C10_InertBeforeReady ==
    [][ /\ (navInputs' # navInputs /\ ~isLoaded) =>
              UNCHANGED <<envVars, ctrlVars, loadVars, sigVars, uiVars,
                          widgetVars, cmdsSent, edgeForwarded>>
        /\ cmdsSent' # cmdsSent =>
              /\ isLoaded
              /\ navInputs' = navInputs + 1
              /\ cmdsSent' = cmdsSent + 1
      ]_vars

C10_Witness ==
    /\ pc = "await"
    /\ ~isLoaded
    /\ navInputs > 0
    /\ cmdsSent = 0


\* C11: whenever the controller is ready, the buttons match the page of the
\* last completed transition, which is the widget's current page: prev is
\* disabled iff that page is <= 1 and next is disabled iff it is >=
\* totalPages, whether the page was reached by button, key or gesture.
C11_ButtonsMatchPage ==
    isLoaded =>
        /\ prevDisabled <=> (wPage <= 1)
        /\ nextDisabled <=> (wPage >= totalPages)

C11_Witness ==
    /\ isLoaded
    /\ wState = "Idle"
    /\ wPage = totalPages
    /\ nextDisabled
    /\ ~prevDisabled
    /\ cmdsSent > 0


\* C12: after every completed transition that reported page P with a
\* two-page viewport [L, R], page R carries right-shadow, page L carries
\* left-shadow iff P > 1, and no page carries any other shadow class
\* (P = 5, viewport [4, 5]: 0-based page 3 left-shadow, page 4 right-shadow).
C12_SpreadShadows ==
    (isLoaded /\ Len(wView) = 2) =>
        \A p \in Pages :
            shadow[p] =
                (IF p + 1 = wView[2] THEN {"right-shadow"} ELSE {})
                \cup (IF p + 1 = wView[1] /\ wPage > 1
                      THEN {"left-shadow"} ELSE {})

C12_Witness ==
    /\ isLoaded
    /\ wState = "Idle"
    /\ wPage = 5
    /\ wView = <<4, 5>>
    /\ shadow[3] = {"left-shadow"}
    /\ shadow[4] = {"right-shadow"}

\* C13: after every completed transition with a single-page viewport, at
\* P = 1 the visible page carries only right-shadow, prev is disabled and
\* next enabled; at P = totalPages it carries only left-shadow, next is
\* disabled and prev enabled; no other page carries a shadow.
C13_SinglePageShadows ==
    (isLoaded /\ Len(wView) = 1) =>
        /\ wPage = 1 =>
              /\ \A p \in Pages :
                    shadow[p] = IF p + 1 = wView[1] THEN {"right-shadow"} ELSE {}
              /\ prevDisabled /\ ~nextDisabled
        /\ wPage = totalPages =>
              /\ \A p \in Pages :
                    shadow[p] = IF p + 1 = wView[1] THEN {"left-shadow"} ELSE {}
              /\ nextDisabled /\ ~prevDisabled

C13_Witness ==
    /\ isLoaded
    /\ wState = "Idle"
    /\ wPage = totalPages
    /\ wView = <<totalPages>>
    /\ shadow[totalPages - 1] = {"left-shadow"}
    /\ nextDisabled
    /\ ~prevDisabled


NoShadows == [p \in Pages |-> {}]

\* The pages the next recompute can be for: the current page again, or a
\* page one transition away.
NextReports ==
    {wPage, TurnTarget("previous", wPage), TurnTarget("next", wPage)} \ {0}

\* C14: the shadow recompute is idempotent and history-independent: from
\* the assignment any sequence of transitions has left, recomputing for a
\* reported page and viewport gives the assignment a recompute from a clean
\* container gives, recomputing a second time changes nothing, and the
\* current assignment is the one of the last reported page and viewport.
C14_RecomputeIdempotent ==
    isLoaded =>
        /\ shadow = updatePageShadows(NoShadows, wPage, wView, Len(flipbook))
        /\ \A P \in NextReports :
              \A V \in Views(P) :
                  LET once == updatePageShadows(shadow, P, V, Len(flipbook))
                  IN  /\ updatePageShadows(once, P, V, Len(flipbook)) = once
                      /\ once = updatePageShadows(NoShadows, P, V, Len(flipbook))

C14_Witness ==
    /\ isLoaded
    /\ wState = "Idle"
    /\ wPage = 3
    /\ wView = <<3>>
    /\ shadow[0] = {}
    /\ shadow[2] = {"left-shadow"}


Ready == pc = "done" /\ isLoaded /\ bound = Handlers /\ loadingHidden

Failed == pc = "failed" /\ loadingText # NoError

\* C16 as stated: with every issued image load eventually answered by a
\* load signal, an error signal or its timeout, startup eventually reaches
\* Ready or Failed and does not stay in the loading phase forever.
C16_StartupTerminates == <>(Ready \/ Failed)

\* The same with jQuery present.
C16_StartupTerminatesWithJQuery == jQueryLoaded => <>(Ready \/ Failed)


\* C17: from the start of init through preload and widget initialization
\* the loading indicator is visible; it is hidden only in the step that ends
\* a successful startup, with the navigation handlers bound; after a failure
\* it is never hidden, and its text is replaced exactly once, by the message
\* of the error that made startup fail.
C17_LoadingIndicator ==
    /\ [](pc \in {"await", "resume", "reject", "created", "failed"}
              => ~loadingHidden)
    /\ [](pc = "failed" => loadingText # NoError)
    /\ [][ /\ (~loadingHidden /\ loadingHidden') =>
                 (pc' = "done" /\ bound' = Handlers)
           /\ loadingText' # loadingText =>
                 /\ loadingText = NoError
                 /\ pc # "failed" /\ pc' = "failed"
                 /\ \/ /\ i < totalPages
                       /\ promise[i] \in Rejected
                       /\ loadingText' = [kind |-> promise[i], idx |-> i]
                    \/ /\ i = totalPages
                       /\ ~turnLoaded
                       /\ loadingText'.kind = "Turn.js is not loaded"
         ]_vars

C17_Witness ==
    /\ pc = "failed"
    /\ ~loadingHidden
    /\ loadingText = [kind |-> "LoadTimeout", idx |-> 1]
    /\ lateSignals > 0


\* C18: a loadImage promise settled by load, error or already-complete has
\* its timer cancelled (a cancelled timer cannot fire: only a pending one
\* does); a timer is pending only while its promise is; at most one timer is
\* pending at any moment and none once initialization has ended.
C18_TimersDoNotLeak ==
    /\ \A j \in Pages :
          /\ promise[j] \in {"resolved", "LoadFailure"} => timer[j] = "cleared"
          /\ promise[j] = "LoadTimeout" => timer[j] = "fired"
          /\ timer[j] = "pending" => promise[j] = "pending"
    /\ Cardinality({j \in Pages : timer[j] = "pending"}) <= 1
    /\ pc \in Ended => \A j \in Pages : timer[j] # "pending"

C18_Witness ==
    /\ pc = "done"
    /\ \A j \in Pages : timer[j] = "cleared"
    /\ lastSignal = [idx |-> totalPages - 1, sig |-> "load"]
    /\ lateSignals > 0


\* C19: the step in which the widget enters Transitioning (the turning
\* callback) changes no controller-owned UI state; button enablement and
\* shadow classes change only in the widget initialization step and in a
\* step that completes a transition (the turned callback), so while the
\* widget is Transitioning they are the ones computed for the previously
\* completed page.
C19_TurningLeavesUIUnchanged ==
    /\ [][ /\ (wState = "Idle" /\ wState' = "Transitioning") =>
                 UNCHANGED <<syncVars, loadingHidden, loadingText, ctrlVars>>
           /\ syncVars' # syncVars =>
                 \/ ~wInit /\ wInit'
                 \/ wState = "Transitioning" /\ wState' = "Idle"
         ]_vars
    /\ []((isLoaded /\ wState = "Transitioning") =>
              /\ prevDisabled <=> (wPage <= 1)
              /\ nextDisabled <=> (wPage >= totalPages)
              /\ shadow = updatePageShadows(NoShadows, wPage, wView,
                                            Len(flipbook)))

C19_Witness ==
    /\ wState = "Transitioning"
    /\ wPage = 2
    /\ wTarget = 3
    /\ wView = <<2>>
    /\ ~prevDisabled
    /\ ~nextDisabled
    /\ shadow[1] = {"left-shadow"}


Shadowed == {p \in Pages : shadow[p] # {}}

\* C20: in every reachable state no page carries both shadow classes, at
\* most one page carries left-shadow and at most one right-shadow, every
\* page carrying a shadow is a member of the viewport read at the last
\* recompute, and an empty viewport slot (entry 0, 0-based index -1) puts a
\* shadow on no page: there are no more shadowed pages than filled slots.
C20_ShadowsWellFormed ==
    /\ \A p \in Pages : shadow[p] # ShadowClasses
    /\ Cardinality({p \in Pages : "left-shadow" \in shadow[p]}) <= 1
    /\ Cardinality({p \in Pages : "right-shadow" \in shadow[p]}) <= 1
    /\ \A p \in Shadowed : \E k \in 1..Len(wView) : wView[k] = p + 1
    /\ Cardinality(Shadowed)
          <= Cardinality({k \in 1..Len(wView) : wView[k] # 0})

C20_Witness ==
    /\ isLoaded
    /\ wState = "Idle"
    /\ wPage = 1
    /\ wView = <<0, 1>>
    /\ Shadowed = {0}
    /\ shadow[0] = {"right-shadow"}
    /\ navInputs > 0

====
